---- MODULE Spec2Model ----
(***************************************************************************)
(* The lunar-lander controller of src/bot.py: the pure helpers (rotate,    *)
(* find_landing_site, stop_at_if_slow_down) and the four-mode state        *)
(* machine that Bot.run dispatches to on every tick.                       *)
(*                                                                         *)
(* Units.  Headings and velocities are Python floats; the model keeps them *)
(* as integers in TENTHS (heading 5 is 0.5 degrees, vx 100 is 10 units/s), *)
(* so every literal compared with a heading or a velocity is the source's  *)
(* literal times ten.  Positions and terrain heights are whole units.      *)
(* Python's None is the integer None (-1): landing sites are indices >= 0. *)
(***************************************************************************)
EXTENDS Integers, Sequences, FiniteSets, TLC

VARIABLES
    state,        \* Bot.state: the name of the bound method run() calls next
    target_site,  \* Bot.target_site: None or an index into the terrain
    config,       \* lunarlander.config: gravity and thrust, fixed for the episode
    call          \* the call of Bot.run of the current tick: arguments and outcome

vars == <<state, target_site, config, call>>

----------------------------------------------------------------------------
(* Bounds of the model *)

\* terrain heights are 0..MaxHeight
MaxHeight == 1
\* terrains of the pure-function specification have at most MaxRuns runs
MaxRuns == 3

----------------------------------------------------------------------------
(* Program constants *)

None == -1
\* rotate's default tolerance, 0.5 degrees, in tenths
Tolerance == 5
\* find_landing_site: a run must be longer than this
MinSiteWidth == 40
team == "Jankas"

Abs(v) == IF v < 0 THEN -v ELSE v

\* int(): truncation toward zero of num / den, den > 0
IntTrunc(num, den) == IF num >= 0 THEN num \div den ELSE -((-num) \div den)

\* np.max of a non-empty array
ArrayMax(a) ==
    CHOOSE m \in {a[i] : i \in 1..Len(a)} : \A i \in 1..Len(a) : a[i] <= m

----------------------------------------------------------------------------
(* rotate *)

\* rotate with the two directions exchanged
rotate_swapped(current, target, tolerance) ==
    IF Abs(current - target) < tolerance THEN "none"
    ELSE IF current < target THEN "right" ELSE "left"

\* rotate with the tolerance itself counted as reached
rotate_inclusive(current, target, tolerance) ==
    IF Abs(current - target) <= tolerance THEN "none"
    ELSE IF current < target THEN "left" ELSE "right"

rotate(current, target, tolerance) ==
    IF Abs(current - target) < tolerance THEN "none"
    ELSE IF current < target THEN "left" ELSE "right"

----------------------------------------------------------------------------
(* find_landing_site *)

\* loc_run_start, for the 0-based index i: True at 0 and wherever the height
\* differs from its predecessor's
LocRunStart(terrain, i) == i = 0 \/ terrain[i] # terrain[i + 1]

\* np.nonzero(loc_run_start)[0]: the 0-based indices where loc_run_start is
\* True, in ascending order
RunStarts(terrain) ==
    LET nz == {i \in 0..(Len(terrain) - 1) : LocRunStart(terrain, i)}
    IN  [k \in 1..Cardinality(nz) |->
            CHOOSE i \in nz : Cardinality({j \in nz : j < i}) = k - 1]

\* np.diff(np.append(run_starts, n))
RunLengths(run_starts, n) ==
    LET ext == Append(run_starts, n)
    IN  [k \in 1..Len(run_starts) |-> ext[k + 1] - ext[k]]

\* ArgMax taking the last position of the maximum
ArgMaxLast(a) ==
    CHOOSE k \in 1..Len(a) :
        /\ \A j \in 1..Len(a) : a[j] <= a[k]
        /\ \A j \in (k + 1)..Len(a) : a[j] < a[k]

\* np.argmax: the first position of the maximum (1-based here)
ArgMax(a) ==
    CHOOSE k \in 1..Len(a) :
        /\ \A j \in 1..Len(a) : a[j] <= a[k]
        /\ \A j \in 1..(k - 1) : a[j] < a[k]

\* The result of a call: exc is "none" and val the value returned, or exc
\* names the exception raised.
Returned(v) == [exc |-> "none", val |-> v]
Raised(e) == [exc |-> e, val |-> None]

find_landing_site(terrain) ==
    LET n == Len(terrain)
    IN  IF n = 0
        THEN Raised("IndexError")   \* loc_run_start[0] = True on an empty array
        ELSE LET run_starts == RunStarts(terrain)
                 run_lengths == RunLengths(run_starts, n)
                 imax == ArgMax(run_lengths)
                 start == run_starts[imax]
                 end == start + run_lengths[imax]
             IN  IF (end - start) > MinSiteWidth
                 THEN Returned(IntTrunc(2 * start + (end - start), 2))
                 ELSE Returned(None)

----------------------------------------------------------------------------
(* stop_at_if_slow_down *)

\* np.cos(heading * np.pi / 180), in units of 1e-5, for the headings (in tenths
\* of a degree) the model supplies; cos is even.
Cos5(heading) ==
    CASE Abs(heading) = 0 -> 100000
      [] Abs(heading) = 4 -> 99998
      [] Abs(heading) = 5 -> 99996
      [] Abs(heading) = 450 -> 70711
      [] Abs(heading) = 900 -> 0

\* The float returned, as an exact fraction num / den of whole units, or what
\* numpy's float64 division by zero gives: v0**2 / 0.0 is inf (so h0 - inf is
\* -inf) for v0 # 0 and nan for v0 = 0.
\* a - g is d / 100000 and v0**2 is v0 * v0 / 100 (v0 in tenths), hence
\* v0**2 / (a - g) = 1000 * v0 * v0 / d.
stop_at_if_slow_down(h0, v0, heading) ==
    LET a == Cos5(heading) * config.thrust
        g == Abs(config.gravity[2]) * 100000
        d == a - g
    IN  IF d # 0 THEN [kind |-> "finite", num |-> h0 * d - 1000 * v0 * v0, den |-> d]
        ELSE IF v0 # 0 THEN [kind |-> "-inf", num |-> 0, den |-> 1]
        ELSE [kind |-> "nan", num |-> 0, den |-> 1]

\* The comparison  f < k  of such a float with a whole number k
FloatLess(f, k) ==
    CASE f.kind = "nan" -> FALSE
      [] f.kind = "-inf" -> TRUE
      [] f.kind = "finite" ->
            IF f.den > 0 THEN f.num < k * f.den ELSE f.num > k * f.den

----------------------------------------------------------------------------
(* The modes of Bot.  Each handler yields what the call did: the exception  *)
(* raised (or "none"), the Instructions and next state returned, the value  *)
(* of self.target_site afterwards, and whether and with what result it     *)
(* called find_landing_site.                                               *)

Instructions == [main |-> FALSE, left |-> FALSE, right |-> FALSE]

Return(instructions, next_state, site, searched, found) ==
    [exc |-> "none", instr |-> instructions, next |-> next_state,
     target_site |-> site, searched |-> searched, found |-> found]

Raise(e, site, searched, found) ==
    [exc |-> e, instr |-> Instructions, next |-> "none",
     target_site |-> site, searched |-> searched, found |-> found]

\* ApplyCommand with the second test on the command's truthiness
ApplyCommandTruthy(instructions, command) ==
    LET i1 == IF command = "left" THEN [instructions EXCEPT !.left = TRUE]
              ELSE instructions
    IN  IF command # "none" THEN [i1 EXCEPT !.right = TRUE] ELSE i1

\* if command == "left": instructions.left = True
\* elif command == "right": instructions.right = True
ApplyCommand(instructions, command) ==
    IF command = "left" THEN [instructions EXCEPT !.left = TRUE]
    ELSE IF command = "right" THEN [instructions EXCEPT !.right = TRUE]
    ELSE instructions

\* hover_height = np.max(terrain) + 50; would_stop_at < hover_height and vy < 0
HoverTrigger(me, terrain) ==
    LET hover_height == ArrayMax(terrain) + 50
        would_stop_at == stop_at_if_slow_down(me.position[2], me.velocity[2], me.heading)
    IN  FloatLess(would_stop_at, hover_height) /\ me.velocity[2] < 0

\* initial_manoeuvre handing over to align_with_landing_site
initial_done_state_skips == "align_with_landing_site"

\* the state initial_manoeuvre hands over to once the heading is reached
initial_done_state == "wait_for_landing_site"

\* initial_manoeuvre with the speed threshold itself counted as too fast
initial_inclusive_speed(players) ==
    IF team \notin DOMAIN players THEN Raise("KeyError", target_site, FALSE, None)
    ELSE
    LET me == players[team]
        command == rotate(me.heading, 0, Tolerance)
    IN  IF me.velocity[1] >= 100
        THEN Return([Instructions EXCEPT !.main = TRUE], "initial_manoeuvre",
                    target_site, FALSE, None)
        ELSE IF command \in {"left", "right"}
        THEN Return(ApplyCommand(Instructions, command), "initial_manoeuvre",
                    target_site, FALSE, None)
        ELSE Return(Instructions, initial_done_state, target_site, FALSE, None)

initial_manoeuvre(players) ==
    IF team \notin DOMAIN players THEN Raise("KeyError", target_site, FALSE, None)
    ELSE
    LET me == players[team]
        vx == me.velocity[1]
        heading == me.heading
    IN  IF vx > 100
        THEN Return([Instructions EXCEPT !.main = TRUE], "initial_manoeuvre",
                    target_site, FALSE, None)
        ELSE LET command == rotate(heading, 0, Tolerance)
             IN  IF command \in {"left", "right"}
                 THEN Return(ApplyCommand(Instructions, command), "initial_manoeuvre",
                             target_site, FALSE, None)
                 ELSE Return(Instructions, initial_done_state,
                             target_site, FALSE, None)

\* wait_for_landing_site staying in its own state on the tick that finds a site
wait_found_state_stays == "wait_for_landing_site"

\* the state wait_for_landing_site hands over to once a site is known
wait_found_state == "align_with_landing_site"

\* WaitWithMe advancing to align_with_landing_site whether or not a site is known
WaitWithMe_advances_blind(me, terrain) ==
    LET searched == target_site = None
        site == find_landing_site(terrain)
    IN  IF searched /\ site.exc # "none"
        THEN Raise(site.exc, target_site, TRUE, None)
        ELSE
        LET found == IF searched THEN site.val ELSE None
            target1 == IF searched THEN site.val ELSE target_site
        IN  Return(Instructions, wait_found_state, target1, searched, found)

\* WaitWithMe with the hover test made before the test for a known site
WaitWithMe_hovers_first(me, terrain) ==
    LET searched == target_site = None
        site == find_landing_site(terrain)
    IN  IF searched /\ site.exc # "none"
        THEN Raise(site.exc, target_site, TRUE, None)
        ELSE
        LET found == IF searched THEN site.val ELSE None
            target1 == IF searched THEN site.val ELSE target_site
        IN  IF Len(terrain) = 0
            THEN Raise("ValueError", target1, searched, found)
            ELSE LET instructions == [Instructions EXCEPT !.main = HoverTrigger(me, terrain)]
                 IN  IF target1 # None
                     THEN Return(instructions, wait_found_state, target1, searched, found)
                     ELSE Return(instructions, "wait_for_landing_site",
                                 target1, searched, found)

\* wait_for_landing_site after the lookup of the own craft, me
WaitWithMe(me, terrain) ==
    LET searched == target_site = None
        site == find_landing_site(terrain)
    IN  IF searched /\ site.exc # "none"
        THEN Raise(site.exc, target_site, TRUE, None)
        ELSE
        LET found == IF searched THEN site.val ELSE None
            target1 == IF searched THEN site.val ELSE target_site
        IN  IF target1 # None
            THEN Return(Instructions, wait_found_state, target1, searched, found)
            ELSE IF Len(terrain) = 0
            THEN Raise("ValueError", target1, searched, found)   \* np.max of an empty array
            ELSE Return([Instructions EXCEPT !.main = HoverTrigger(me, terrain)],
                        "wait_for_landing_site", target1, searched, found)

\* wait_for_landing_site searching for the site before it looks up the own craft
wait_searches_first(players, terrain) ==
    IF team \in DOMAIN players THEN WaitWithMe(players[team], terrain)
    ELSE LET site == find_landing_site(terrain)
         IN  IF target_site = None /\ site.exc = "none"
             THEN Raise("KeyError", site.val, TRUE, site.val)
             ELSE Raise("KeyError", target_site, FALSE, None)

wait_for_landing_site(players, terrain) ==
    IF team \notin DOMAIN players THEN Raise("KeyError", target_site, FALSE, None)
    ELSE WaitWithMe(players[team], terrain)

\* AlignReduceHorizontalSpeed steering to the bank of the wrong side
AlignReduce_bank_swapped(instructions, me, bank) ==
    LET vx == me.velocity[1]
        vy == me.velocity[2]
        heading == me.heading
        command == IF Abs(vx) <= 1 THEN rotate(heading, 0, Tolerance)
                   ELSE IF vx > 1 THEN rotate(heading, -bank, Tolerance)
                   ELSE rotate(heading, bank, Tolerance)
        i1 == IF Abs(vx) <= 1 THEN instructions
              ELSE IF vx > 1 THEN [instructions EXCEPT !.main = TRUE]
              ELSE [instructions EXCEPT !.main = FALSE]
        i2 == ApplyCommand(i1, command)
    IN  IF Abs(vx) < 5 /\ vy < -30 THEN [i2 EXCEPT !.main = TRUE] ELSE i2

\* The "Reduce horizontal speed" block of align_with_landing_site, steering to
\* the heading bank (90 degrees in the source) against the drift
AlignReduceHorizontalSpeed(instructions, me, bank) ==
    LET vx == me.velocity[1]
        vy == me.velocity[2]
        heading == me.heading
        command == IF Abs(vx) <= 1 THEN rotate(heading, 0, Tolerance)
                   ELSE IF vx > 1 THEN rotate(heading, bank, Tolerance)
                   ELSE rotate(heading, -bank, Tolerance)
        i1 == IF Abs(vx) <= 1 THEN instructions
              ELSE IF vx > 1 THEN [instructions EXCEPT !.main = TRUE]
              ELSE [instructions EXCEPT !.main = FALSE]
        i2 == ApplyCommand(i1, command)
    IN  IF Abs(vx) < 5 /\ vy < -30 THEN [i2 EXCEPT !.main = TRUE] ELSE i2

\* LandReduceHorizontalSpeed firing the engine against the drift in both
\* directions
LandReduce_fires_both_ways(instructions, me, bank) ==
    LET vx == me.velocity[1]
        vy == me.velocity[2]
        heading == me.heading
        command == IF Abs(vx) <= 1 THEN rotate(heading, 0, Tolerance)
                   ELSE IF vx > 1 THEN rotate(heading, bank, Tolerance)
                   ELSE rotate(heading, -bank, Tolerance)
        i1 == IF Abs(vx) <= 1 THEN instructions
              ELSE [instructions EXCEPT !.main = TRUE]
        i2 == ApplyCommand(i1, command)
    IN  IF Abs(vx) > 20 /\ vy < -30 THEN [i2 EXCEPT !.main = TRUE] ELSE i2

\* The "Reduce horizontal speed" block of land (bank is 45 degrees in the source)
LandReduceHorizontalSpeed(instructions, me, bank) ==
    LET vx == me.velocity[1]
        vy == me.velocity[2]
        heading == me.heading
        command == IF Abs(vx) <= 1 THEN rotate(heading, 0, Tolerance)
                   ELSE IF vx > 1 THEN rotate(heading, bank, Tolerance)
                   ELSE rotate(heading, -bank, Tolerance)
        i1 == IF Abs(vx) <= 1 THEN instructions
              ELSE IF vx > 1 THEN [instructions EXCEPT !.main = TRUE]
              ELSE [instructions EXCEPT !.main = FALSE]
        i2 == ApplyCommand(i1, command)
    IN  IF Abs(vx) > 20 /\ vy < -30 THEN [i2 EXCEPT !.main = TRUE] ELSE i2

\* AlignWithMe handing over to land at the near threshold (50) already
AlignWithMe_lands_near(me, terrain) ==
    LET i0 == [Instructions EXCEPT !.main = HoverTrigger(me, terrain)]
        diff == target_site - me.position[1]
    IN  IF Abs(diff) < 50
        THEN Return(AlignReduceHorizontalSpeed(i0, me, 900), "land",
                    target_site, FALSE, None)
        ELSE Return(i0, "align_with_landing_site", target_site, FALSE, None)

\* align_with_landing_site from the lookup of the own craft, me, to its return
\* (terrain non-empty, self.target_site set)
AlignWithMe(me, terrain) ==
    LET x == me.position[1]
        i0 == [Instructions EXCEPT !.main = HoverTrigger(me, terrain)]
        diff == target_site - x
        i1 == IF Abs(diff) < 50
              THEN AlignReduceHorizontalSpeed(i0, me, 900)
              ELSE i0
    IN  IF Abs(diff) < 30
        THEN Return(i1, "land", target_site, FALSE, None)
        ELSE Return(i1, "align_with_landing_site", target_site, FALSE, None)

\* align_with_landing_site choosing the site again on the terrain of the tick
align_reacquires(players, terrain) ==
    IF team \notin DOMAIN players THEN Raise("KeyError", target_site, FALSE, None)
    ELSE IF Len(terrain) = 0 THEN Raise("ValueError", target_site, FALSE, None)
    ELSE IF target_site = None THEN Raise("TypeError", target_site, FALSE, None)
    ELSE LET site == find_landing_site(terrain).val
             r == AlignWithMe(players[team], terrain)
         IN  [r EXCEPT !.target_site = IF site # None THEN site ELSE target_site,
                       !.searched = TRUE, !.found = site]

align_with_landing_site(players, terrain) ==
    IF team \notin DOMAIN players THEN Raise("KeyError", target_site, FALSE, None)
    ELSE IF Len(terrain) = 0 THEN Raise("ValueError", target_site, FALSE, None)
    ELSE IF target_site = None THEN Raise("TypeError", target_site, FALSE, None)
    ELSE AlignWithMe(players[team], terrain)

\* land running its "Reduce horizontal speed" block after the three descent
\* triggers instead of before them
land_reduces_last(players, terrain) ==
    IF team \notin DOMAIN players THEN Raise("KeyError", target_site, FALSE, None)
    ELSE IF target_site = None THEN Raise("TypeError", target_site, FALSE, None)
    ELSE IF target_site >= Len(terrain) THEN Raise("IndexError", target_site, FALSE, None)
    ELSE
    LET me == players[team]
        y == me.position[2]
        vy == me.velocity[2]
        diff == target_site - me.position[1]
        target_height == terrain[target_site + 1]
        would_stop_at == stop_at_if_slow_down(y, vy, me.heading)
        fire == \/ FloatLess(would_stop_at, target_height - 60)
                \/ Abs(y - target_height) < 15
                \/ vy < -50
        i1 == [Instructions EXCEPT !.main = fire]
    IN  Return(IF Abs(diff) < 50 THEN LandReduceHorizontalSpeed(i1, me, 450) ELSE i1,
               "land", target_site, FALSE, None)

\* land handing back to align_with_landing_site
land_next_state_reverts == "align_with_landing_site"

\* the state land returns
land_next_state == "land"

land(players, terrain) ==
    IF team \notin DOMAIN players THEN Raise("KeyError", target_site, FALSE, None)
    ELSE IF target_site = None THEN Raise("TypeError", target_site, FALSE, None)
    ELSE IF target_site >= Len(terrain) THEN Raise("IndexError", target_site, FALSE, None)
    ELSE
    LET me == players[team]
        x == me.position[1]
        y == me.position[2]
        vx == me.velocity[1]
        vy == me.velocity[2]
        heading == me.heading
        diff == target_site - x
        i1 == IF Abs(diff) < 50
              THEN LandReduceHorizontalSpeed(Instructions, me, 450)
              ELSE Instructions
        target_height == terrain[target_site + 1]
        would_stop_at == stop_at_if_slow_down(y, vy, heading)
        fire == \/ FloatLess(would_stop_at, target_height - 60)
                \/ Abs(y - target_height) < 15
                \/ vy < -50
    IN  Return(IF fire THEN [i1 EXCEPT !.main = TRUE] ELSE i1,
               land_next_state, target_site, FALSE, None)

----------------------------------------------------------------------------
(* The inputs of a tick *)

\* [h, ..., h], n times
Flat(h, n) == [i \in 1..n |-> h]

Heights == 0..MaxHeight

\* The terrains handed to Bot.run: none, a single sample, and a plateau of
\* MinSiteWidth or MinSiteWidth + 1 samples, alone or after one other sample.
Terrains ==
    {Flat(h1, n1) \o Flat(h2, n2) :
        h1 \in {MaxHeight}, h2 \in {0}, n1 \in {0, 1},
        n2 \in {0, MinSiteWidth, MinSiteWidth + 1}}

Headings == {-900, -450, -5, 0, 4, 5, 450, 900}
VXs == {-101, -21, -2, 0, 1, 2, 5, 21, 100, 101}
VYs == {-150, -51, -50, -31, -30, 0}
Xs == {20, 49, 50, 71}
Ys == {14, 15, 100}

PlayerInfos ==
    [position : Xs \X Ys, velocity : VXs \X VYs, heading : Headings]

\* players: the own craft's entry, or a map that lacks it
PlayerMaps ==
    {[t \in {team} |-> info] : info \in PlayerInfos} \cup {[t \in {} |-> 0]}

\* config.gravity and config.thrust
Configs == {[gravity |-> <<0, -2>>, thrust |-> t] : t \in {2, 5}}

Idle ==
    [op |-> "idle", terrain |-> << >>, players |-> [t \in {} |-> 0],
     exc |-> "none", instr |-> Instructions, searched |-> FALSE, found |-> None]

----------------------------------------------------------------------------
(* Bot *)

\* Bot.__init__
Init ==
    /\ state = "initial_manoeuvre"
    /\ target_site = None
    /\ config \in Configs
    /\ call = Idle

\* Bot.run around the handler's outcome r: an exception leaves self.state as
\* it was; self.target_site is what the handler left.
Run(op, terrain, players, r) ==
    /\ state' = IF r.exc = "none" THEN r.next ELSE state
    /\ target_site' = r.target_site
    /\ call' = [op |-> op, terrain |-> terrain, players |-> players,
                exc |-> r.exc, instr |-> r.instr,
                searched |-> r.searched, found |-> r.found]
    /\ UNCHANGED config

RunInitialManoeuvre ==
    /\ call.op = "idle"
    /\ state = "initial_manoeuvre"
    /\ \E terrain \in Terrains, players \in PlayerMaps :
          Run("initial_manoeuvre", terrain, players, initial_manoeuvre(players))

RunWaitForLandingSite ==
    /\ call.op = "idle"
    /\ state = "wait_for_landing_site"
    /\ \E terrain \in Terrains, players \in PlayerMaps :
          Run("wait_for_landing_site", terrain, players,
              wait_for_landing_site(players, terrain))

RunAlignWithLandingSite ==
    /\ call.op = "idle"
    /\ state = "align_with_landing_site"
    /\ \E terrain \in Terrains, players \in PlayerMaps :
          Run("align_with_landing_site", terrain, players,
              align_with_landing_site(players, terrain))

RunLand ==
    /\ call.op = "idle"
    /\ state = "land"
    /\ \E terrain \in Terrains, players \in PlayerMaps :
          Run("land", terrain, players, land(players, terrain))

\* The caller takes the outcome of the call; the next call is the next tick's
NextTick ==
    /\ call.op # "idle"
    /\ call' = Idle
    /\ UNCHANGED <<state, target_site, config>>

Next ==
    \/ RunInitialManoeuvre
    \/ RunWaitForLandingSite
    \/ RunAlignWithLandingSite
    \/ RunLand
    \/ NextTick

Spec == Init /\ [][Next]_vars

----------------------------------------------------------------------------
(* The pure functions on their own: a step applies one of them to arguments *)
(* drawn from the sets below and records the call, the next one returns.   *)

RunLens == {1, MinSiteWidth, MinSiteWidth + 1, MinSiteWidth + 2}

RECURSIVE TerrainOfRuns(_)
TerrainOfRuns(runs) ==
    IF runs = << >> THEN << >>
    ELSE Flat(Head(runs)[1], Head(runs)[2]) \o TerrainOfRuns(Tail(runs))

\* every terrain made of at most MaxRuns stretches of constant height
PureTerrains ==
    {TerrainOfRuns(runs) :
        runs \in UNION {[1..k -> Heights \X RunLens] : k \in 0..MaxRuns}}

RotateCurrents == {-100, -6, -5, -4, -2, 0, 2, 4, 5, 6, 100}
RotateTargets == {-100, 0, 100}
RotateTolerances == {0, 2, Tolerance}

CallFindLandingSite ==
    /\ call.op = "idle"
    /\ \E terrain \in PureTerrains :
          call' = [op |-> "find_landing_site", terrain |-> terrain,
                   ret |-> find_landing_site(terrain)]
    /\ UNCHANGED <<state, target_site, config>>

CallRotate ==
    /\ call.op = "idle"
    /\ \E current \in RotateCurrents, target \in RotateTargets,
          tolerance \in RotateTolerances :
          call' = [op |-> "rotate", current |-> current, target |-> target,
                   tolerance |-> tolerance,
                   ret |-> rotate(current, target, tolerance)]
    /\ UNCHANGED <<state, target_site, config>>

StopHeights == {0, 14, 100}
StopSpeeds == {-150, -51, 0, 51}

CallStopAtIfSlowDown ==
    /\ call.op = "idle"
    /\ \E h0 \in StopHeights, v0 \in StopSpeeds, heading \in Headings :
          call' = [op |-> "stop_at_if_slow_down", h0 |-> h0, v0 |-> v0,
                   heading |-> heading,
                   ret |-> stop_at_if_slow_down(h0, v0, heading)]
    /\ UNCHANGED <<state, target_site, config>>

NextPure ==
    \/ CallFindLandingSite
    \/ CallRotate
    \/ CallStopAtIfSlowDown
    \/ NextTick

SpecPure == Init /\ [][NextPure]_vars

----------------------------------------------------------------------------
(* Properties *)

Modes == {"initial_manoeuvre", "wait_for_landing_site",
          "align_with_landing_site", "land"}

\* the own craft of the recorded call
Me == call.players[team]
HasMe == team \in DOMAIN call.players

\* C1: the Instructions returned by Bot.run, in any of the four modes and for
\* any input, never have left and right both true.
C1_LeftRightExclusive ==
    call.op \in Modes => ~(call.instr.left /\ call.instr.right)

C1_Witness ==
    /\ call.op = "land" /\ call.exc = "none"
    /\ call.instr.right /\ ~call.instr.left

\* C2: once Bot.state is land, every later call of Bot.run leaves it land.
C2_LandIsTerminal == [][state = "land" => state' = "land"]_vars

C2_Witness == state = "land" /\ call.op = "land" /\ call.exc = "none"

\* C3: once target_site is set it keeps its value in every later tick, whatever
\* terrain is passed in, and find_landing_site is not called again.
C3_SiteChosenOnce ==
    [][target_site # None =>
          /\ target_site' = target_site
          /\ call'.op \in Modes => ~call'.searched]_vars

\* a tick with the site set and a terrain on which another site, or none,
\* would be chosen
C3_Witness ==
    /\ target_site # None
    /\ call.op \in {"align_with_landing_site", "land"}
    /\ call.exc = "none"
    /\ find_landing_site(call.terrain).val # target_site

\* C4: a call of Bot.run leaves the mode as it is or moves it to the next one
\* in the order initial_manoeuvre, wait_for_landing_site,
\* align_with_landing_site, land; it never goes back and never skips a mode.
ModeRank(m) ==
    CASE m = "initial_manoeuvre" -> 0
      [] m = "wait_for_landing_site" -> 1
      [] m = "align_with_landing_site" -> 2
      [] m = "land" -> 3

C4_OneStepForward ==
    [][/\ state' \in Modes
       /\ ModeRank(state') \in {ModeRank(state), ModeRank(state) + 1}]_vars

\* the tick that takes align_with_landing_site to land
C4_Witness ==
    /\ state = "land"
    /\ call.op = "align_with_landing_site"
    /\ call.exc = "none"

\* The maximal runs of equal consecutive heights, as <<start, end>> with
\* 0-based start and exclusive end: the stretches between two neighbouring cuts,
\* a cut being an end of the terrain or a place where the height changes.
Cuts(terrain) ==
    {0, Len(terrain)} \cup {i \in 1..(Len(terrain) - 1) : terrain[i] # terrain[i + 1]}

MaximalRuns(terrain) ==
    {r \in Cuts(terrain) \X Cuts(terrain) :
        /\ r[1] < r[2]
        /\ ~\E m \in Cuts(terrain) : r[1] < m /\ m < r[2]}

\* the longest maximal run, the one of lowest start among the longest
LongestRun(terrain) ==
    CHOOSE r \in MaximalRuns(terrain) :
        \A q \in MaximalRuns(terrain) :
            \/ q[2] - q[1] < r[2] - r[1]
            \/ q[2] - q[1] = r[2] - r[1] /\ r[1] <= q[1]

\* C5: on a non-empty terrain find_landing_site returns start + floor(length / 2)
\* of the longest maximal run (the first of the longest) when that length is
\* above 40, and None when it is 40 or less.
C5_LongestRunMidpoint ==
    (call.op = "find_landing_site" /\ Len(call.terrain) > 0) =>
        LET r == LongestRun(call.terrain)
            length == r[2] - r[1]
        IN  /\ call.ret.exc = "none"
            /\ call.ret.val = IF length > 40 THEN r[1] + (length \div 2) ELSE None

\* two longest runs of equal length above the threshold: the first is chosen
C5_Witness ==
    /\ call.op = "find_landing_site"
    /\ Len(call.terrain) > 0
    /\ \E q \in MaximalRuns(call.terrain) :
          /\ q # LongestRun(call.terrain)
          /\ q[2] - q[1] = LongestRun(call.terrain)[2] - LongestRun(call.terrain)[1]
    /\ call.ret.val # None
    /\ call.ret.val < LongestRun(call.terrain)[2]

\* C6: rotate returns none exactly when |current - target| < tolerance, and
\* otherwise left when current < target and right when current > target;
\* rotate(0, 10, 0.5) = left, rotate(10, 0, 0.5) = right, rotate(0.2, 0, 0.5) = none.
C6_Rotate ==
    call.op = "rotate" =>
        /\ call.ret = "none" <=> Abs(call.current - call.target) < call.tolerance
        /\ (call.ret # "none" /\ call.current < call.target) => call.ret = "left"
        /\ (call.ret # "none" /\ call.current > call.target) => call.ret = "right"
        /\ (call.current = 0 /\ call.target = 100 /\ call.tolerance = 5)
              => call.ret = "left"
        /\ (call.current = 100 /\ call.target = 0 /\ call.tolerance = 5)
              => call.ret = "right"
        /\ (call.current = 2 /\ call.target = 0 /\ call.tolerance = 5)
              => call.ret = "none"

C6_Witness ==
    /\ call.op = "rotate"
    /\ call.current = 100 /\ call.target = 0 /\ call.tolerance = 5
    /\ call.ret = "right"

\* C7: a call of Bot.run whose players map lacks the own craft raises (KeyError)
\* in every mode and changes neither Bot.state nor Bot.target_site.
C7_MissingCraftRaises ==
    [][(call'.op \in Modes /\ team \notin DOMAIN call'.players) =>
          /\ call'.exc = "KeyError"
          /\ state' = state
          /\ target_site' = target_site]_vars

C7_Witness ==
    /\ call.op = "wait_for_landing_site"
    /\ ~HasMe
    /\ call.exc = "KeyError"
    /\ Len(call.terrain) > MinSiteWidth

\* C8: wait_for_landing_site given a terrain of length 0 does not raise:
\* find_landing_site returns None and the controller stays in
\* wait_for_landing_site with target_site None.
C8_EmptyTerrainHandled ==
    (call.op = "wait_for_landing_site" /\ HasMe /\ Len(call.terrain) = 0) =>
        /\ call.exc = "none"
        /\ call.found = None
        /\ state = "wait_for_landing_site"
        /\ target_site = None

\* C9 as claimed: a heading exactly at the tolerance (0.5 or -0.5 degrees) counts
\* as reached, so initial_manoeuvre with vx <= 10 issues no rotation and
\* advances to wait_for_landing_site.
C9_TieIsReached ==
    (/\ call.op = "initial_manoeuvre" /\ HasMe
     /\ Abs(Me.heading) = Tolerance /\ Me.velocity[1] <= 100) =>
        /\ ~call.instr.left /\ ~call.instr.right
        /\ state = "wait_for_landing_site"

\* C9 as amended: a heading exactly at the tolerance is NOT reached (the test is
\* the strict |current - target| < tolerance): rotate returns right for 0.5 and
\* left for -0.5, and initial_manoeuvre with vx <= 10 stays in
\* initial_manoeuvre; only a heading strictly inside the tolerance advances.
C9_TieIsNotReached ==
    (/\ call.op = "initial_manoeuvre" /\ HasMe /\ Me.velocity[1] <= 100) =>
        /\ Me.heading = Tolerance =>
              (call.instr.right /\ ~call.instr.left /\ state = "initial_manoeuvre")
        /\ Me.heading = -Tolerance =>
              (call.instr.left /\ ~call.instr.right /\ state = "initial_manoeuvre")
        /\ Abs(Me.heading) < Tolerance =>
              (~call.instr.left /\ ~call.instr.right
               /\ state = "wait_for_landing_site")

C9_Witness ==
    /\ call.op = "initial_manoeuvre" /\ HasMe
    /\ Me.heading = Tolerance /\ Me.velocity[1] <= 100
    /\ state = "initial_manoeuvre"
    /\ call.instr.right

\* C10: a tick in wait_for_landing_site on whose terrain find_landing_site finds
\* no site leaves the controller in wait_for_landing_site with target_site None;
\* the first tick on whose terrain it finds one stores that site and moves to
\* align_with_landing_site at once.
C10_WaitUntilSiteFound ==
    [][(/\ state = "wait_for_landing_site"
        /\ call'.op = "wait_for_landing_site"
        /\ team \in DOMAIN call'.players) =>
          LET site == find_landing_site(call'.terrain)
          IN  IF site.exc = "none" /\ site.val # None
              THEN /\ call'.searched
                   /\ target_site' = site.val
                   /\ state' = "align_with_landing_site"
              ELSE /\ target_site' = None
                   /\ state' = "wait_for_landing_site"]_vars

C10_Witness ==
    /\ call.op = "wait_for_landing_site"
    /\ call.searched /\ call.found # None
    /\ target_site = call.found
    /\ state = "align_with_landing_site"

C12_FastEitherWayFiresMain ==
    (call.op = "initial_manoeuvre" /\ HasMe /\ Abs(Me.velocity[1]) > 100) =>
        /\ call.instr.main
        /\ ~call.instr.left /\ ~call.instr.right
        /\ state = "initial_manoeuvre"

\* the own craft is present and the site is an index of the terrain: land runs
\* to its return
LandRuns ==
    /\ call.op = "land" /\ HasMe
    /\ target_site # None /\ target_site < Len(call.terrain)

\* C13: in land the main engine is fired on every tick where vy < -5, or
\* |y - terrain[target_site]| < 15, or the predicted stop height is below
\* terrain[target_site] - 60, whatever the horizontal-velocity block decided.
C13_LandDescentTriggers ==
    LandRuns =>
        LET y == Me.position[2]
            vy == Me.velocity[2]
            site_height == call.terrain[target_site + 1]
        IN  (\/ vy < -50
             \/ Abs(y - site_height) < 15
             \/ FloatLess(stop_at_if_slow_down(y, vy, Me.heading), site_height - 60))
            => call.instr.main

\* the horizontal block switched the engine off (vx < -0.1 near the site, without
\* its own override) and only the predicted stop height fires it
C13_Witness ==
    /\ LandRuns
    /\ Abs(target_site - Me.position[1]) < 50
    /\ Me.velocity[1] = -2
    /\ Me.velocity[2] >= -50
    /\ Abs(Me.position[2] - call.terrain[target_site + 1]) >= 15
    /\ call.instr.main

\* the own craft is present, the terrain is not empty and the site is set:
\* align_with_landing_site runs to its return
AlignRuns ==
    /\ call.op = "align_with_landing_site" /\ HasMe
    /\ Len(call.terrain) > 0 /\ target_site # None

\* C14: in align_with_landing_site, on every tick where the altitude-hold test
\* holds (predicted stop height below max(terrain) + 50 with vy < 0), the
\* instructions returned have main true, whatever the horizontal velocity and
\* the distance to the site: no later branch switches the engine off.
C14_AltitudeHoldFires ==
    (AlignRuns /\ HoverTrigger(Me, call.terrain)) => call.instr.main

\* C15: align_with_landing_site advances to land exactly on a tick where
\* |target_site - x| < 30 and stays in align_with_landing_site on every tick
\* where |target_site - x| >= 30, whatever the velocity and the heading.
C15_LandWithinThirty ==
    AlignRuns =>
        /\ state = "land" <=> Abs(target_site - Me.position[1]) < 30
        /\ state = "align_with_landing_site" <=> Abs(target_site - Me.position[1]) >= 30

\* both sides of the threshold: 29 away the controller lands
C15_Witness ==
    /\ AlignRuns
    /\ Abs(target_site - Me.position[1]) = 29
    /\ state = "land"

\* the rotation flags returned are those of a rotation toward the heading target
RotationToward(target) ==
    /\ call.instr.left <=> rotate(Me.heading, target, Tolerance) = "left"
    /\ call.instr.right <=> rotate(Me.heading, target, Tolerance) = "right"

NetThrust == Cos5(call.heading) * config.thrust - Abs(config.gravity[2]) * 100000

RECURSIVE GCD(_, _)
GCD(m, n) == IF n = 0 THEN m ELSE GCD(n, m % n)

\* the fraction num / den (den # 0) in lowest terms with a positive denominator
Lowest(num, den) ==
    LET g == GCD(Abs(num), Abs(den))
        sign == IF den < 0 THEN -1 ELSE 1
    IN  <<sign * (num \div g), sign * (den \div g)>>

\* |f - h0| for the finite float f = num / den, times |den|
Travel(f, h0) == Abs(f.num - h0 * f.den)

\* C17: for a # g the value of stop_at_if_slow_down is the standard stopping
\* height h0 - v0^2 / (2 * (a - g)), and for fixed a and g a larger |v0| moves
\* it further from h0.
\* (In the model's units v0^2 / (2 * (a - g)) is 1000 * v0 * v0 / (2 * NetThrust);
\* two fractions are equal when their lowest terms are.)
C17_StandardStoppingHeight ==
    (call.op = "stop_at_if_slow_down" /\ NetThrust # 0) =>
        /\ call.ret.kind = "finite"
        /\ Lowest(call.ret.num, call.ret.den) =
              Lowest(call.h0 * 2 * NetThrust - 1000 * call.v0 * call.v0, 2 * NetThrust)
        /\ \A v1 \in StopSpeeds :
              Abs(v1) > Abs(call.v0) =>
                  Travel(stop_at_if_slow_down(call.h0, v1, call.heading), call.h0)
                      > Travel(call.ret, call.h0)

\* the part of C17 the code bears out (not a claim's formula): the value is
\* h0 - v0^2 / (a - g), twice the standard distance from h0, and grows with |v0|
C17_CodeFormula ==
    (call.op = "stop_at_if_slow_down" /\ NetThrust # 0) =>
        /\ call.ret.kind = "finite"
        /\ Lowest(call.ret.num, call.ret.den) =
              Lowest(call.h0 * NetThrust - 1000 * call.v0 * call.v0, NetThrust)
        /\ \A v1 \in StopSpeeds :
              Abs(v1) > Abs(call.v0) =>
                  Travel(stop_at_if_slow_down(call.h0, v1, call.heading), call.h0)
                      > Travel(call.ret, call.h0)

\* the instructions a "Reduce horizontal speed" block may start from, and the
\* bank angles of the two modes
BlockStarts == {[Instructions EXCEPT !.main = m] : m \in BOOLEAN}
Banks == {450, 900}

\* a tick of align_with_landing_site or land that runs its "Reduce horizontal
\* speed" block
BlockRuns ==
    /\ AlignRuns \/ LandRuns
    /\ Abs(target_site - Me.position[1]) < 50

C19_SiteKnownInAlignAndLand ==
    /\ state \in {"align_with_landing_site", "land"} => target_site # None
    /\ call.op \in {"align_with_landing_site", "land"} => target_site # None

\* a tick of land with the craft present that looked up terrain[target_site]
C19_Witness ==
    /\ state = "land" /\ call.op = "land" /\ HasMe
    /\ target_site # None /\ target_site < Len(call.terrain)
    /\ call.exc = "none"

\* a terrain with a run of equal heights longer than MinSiteWidth
HasQualifyingRun(terrain) ==
    \E r \in MaximalRuns(terrain) : r[2] - r[1] > MinSiteWidth

\* C20: a tick of wait_for_landing_site that has or finds a landing site
\* returns all-false instructions, whatever the craft's height and vertical
\* velocity; the hover thrust of this mode fires only on ticks that leave no
\* site known; with the craft present and a terrain that has a qualifying run,
\* the tick finds the site, fires nothing and hands over to
\* align_with_landing_site, and the controller never comes back to
\* wait_for_landing_site, so it spends one tick there.
C20_NoHoverOnceSiteFound ==
    [][/\ call'.op = "wait_for_landing_site" =>
            /\ (call'.exc = "none" /\ target_site' # None) =>
                  /\ call'.instr = Instructions
                  /\ state' = "align_with_landing_site"
            /\ call'.instr.main =>
                  /\ target_site' = None
                  /\ state' = "wait_for_landing_site"
            /\ (team \in DOMAIN call'.players /\ HasQualifyingRun(call'.terrain)) =>
                  /\ call'.exc = "none" /\ target_site' # None
                  /\ call'.instr = Instructions
                  /\ state' = "align_with_landing_site"
       /\ state \in {"align_with_landing_site", "land"} =>
            state' \in {"align_with_landing_site", "land"}]_vars

\* a tick of wait_for_landing_site that finds a site while the hover test holds
\* of the craft: the instructions are all false
C20_Witness ==
    /\ call.op = "wait_for_landing_site" /\ HasMe
    /\ call.found # None /\ target_site = call.found
    /\ HoverTrigger(Me, call.terrain)
    /\ call.instr = Instructions
    /\ state = "align_with_landing_site"

====
